---- MODULE Spec2Model ----
(***************************************************************************)
(* The dft crate: Plan::new (the twiddle-factor recurrence of src/lib.rs)  *)
(* and the transforms that consume a plan.  The transforms live in         *)
(* complex.rs and real.rs, which lib.rs declares with `mod complex;        *)
(* mod real;`; they are modelled from sections 4.2 and 4.3 of the          *)
(* specification.                                                          *)
(*                                                                         *)
(* Floating-point numbers (T: Float) are modelled as binary fixed-point    *)
(* numbers with FracBits fractional bits: the integer v stands for         *)
(* v / 2^FracBits.  Every product is rounded to the nearest representable  *)
(* value, ties away from zero, so rounding is sign-symmetric as it is in   *)
(* IEEE-754; sums and differences are exact.                               *)
(***************************************************************************)
EXTENDS Integers, Sequences, FiniteSets

VARIABLES
    pc,         \* where the running Plan::new call is: idle, loop, returned, panicked
    operation,  \* Plan::new: the argument `operation`
    n,          \* Plan::new: the argument `n`
    step,       \* Plan::new: the local `step`
    factors,    \* Plan::new: the local `factors`
    plan,       \* the Plan the caller holds (NoPlan before the first one)
    kind,       \* the caller's buffer: "complex", "real" or "none"
    input,      \* the samples the caller put into the buffer
    data,       \* the buffer, transformed in place
    applied,    \* the operations of the transforms applied to the buffer so far
    spectrum    \* the result of unpack, <<>> before it is called

vars == <<pc, operation, n, step, factors, plan, kind, input, data, applied, spectrum>>

planVars == <<pc, operation, n, step, factors>>
bufVars == <<kind, input, data, applied, spectrum>>

----------------------------------------------------------------------------
(* Bounds *)

\* usize is modelled W bits wide
W == 4

\* the buffers of the transform specification have length 2^k, k <= MaxLogN
MaxLogN == 3

----------------------------------------------------------------------------
(* Numbers *)

\* the precision of T: the number of fractional bits kept
FracBits == 7

One == 2 ^ FracBits

Two == One + One

\* p / One rounded to the nearest integer, ties away from zero
Round(p) ==
    IF p >= 0 THEN (2 * p + One) \div (2 * One)
              ELSE -((2 * (-p) + One) \div (2 * One))

\* T's multiplication
Mul(x, y) == Round(x * y)

\* the macro c!
c(re, im) == [re |-> re, im |-> im]

\* Complex<T> + Complex<T>
CAdd(a, b) == c(a.re + b.re, a.im + b.im)

\* Complex<T> - Complex<T>
CSub(a, b) == c(a.re - b.re, a.im - b.im)

\* Complex<T> * Complex<T>
CMul(a, b) ==
    c(Mul(a.re, b.re) - Mul(a.im, b.im), Mul(a.re, b.im) + Mul(a.im, b.re))

Conj(a) == c(a.re, -a.im)

\* sin(pi / d), d a power of two, rounded to FracBits fractional bits
SinPiOver(d) ==
    CASE d = 1 -> 0
      [] d = 2 -> 128
      [] d = 4 -> 91
      [] d = 8 -> 49
      [] d = 16 -> 25
      [] d = 32 -> 13
      [] d = 64 -> 6
      [] d = 128 -> 3

----------------------------------------------------------------------------
(* Plan::new *)

Operation == {"Forward", "Backward", "Inverse"}

NoPlan == [n |-> 0, factors |-> <<>>, operation |-> "None"]

USize == 0 .. (2 ^ W - 1)

\* usize::is_power_of_two (ZeroOk: the variant that tests n & (n - 1) == 0)
IsPowerOfTwoZeroOk(m) == m = 0 \/ \E k \in 0 .. (W - 1) : m = 2 ^ k
IsPowerOfTwo(m) == \E k \in 0 .. (W - 1) : m = 2 ^ k

\* let sign = if let Operation::Forward = operation { -one } else { one };
\* (InverseNegative, AlwaysPositive: variants that pick the sign otherwise)
SignInverseNegative(op) == IF op \in {"Forward", "Inverse"} THEN -One ELSE One
SignAlwaysPositive(op) == One
Sign(op) == IF op = "Forward" THEN -One ELSE One

\* the multiplier of a stage: c!(-two * sine * sine, sign * theta.sin())
\* with theta = pi / step and sine = (theta / two).sin()
\* (FullAngle: the variant with sine = theta.sin(); OfLastStage: the variant
\* whose theta is that of the last stage of the plan, pi / (n / 2))
MultiplierFullAngle(sign, st) ==
    LET sine == SinPiOver(st)
    IN  c(Mul(Mul(-Two, sine), sine), Mul(sign, SinPiOver(st)))
MultiplierOfLastStage(sign, st) ==
    LET last == IF n > 1 THEN n \div 2 ELSE 1
        sine == SinPiOver(2 * last)
    IN  c(Mul(Mul(-Two, sine), sine), Mul(sign, SinPiOver(last)))
Multiplier(sign, st) ==
    LET sine == SinPiOver(2 * st)
    IN  c(Mul(Mul(-Two, sine), sine), Mul(sign, SinPiOver(st)))

\* for _ in 0..step { factors.push(factor); factor = multiplier * factor + factor; }
\* the factors pushed by the first k iterations, starting from c!(one, zero)
RECURSIVE Pushed(_, _)
Pushed(multiplier, k) ==
    IF k = 0 THEN <<>>
    ELSE IF k = 1 THEN <<c(One, 0)>>
    ELSE CHOOSE pushed \in
             {Append(sofar, CAdd(CMul(multiplier, sofar[k - 1]), sofar[k - 1])) :
                 sofar \in {Pushed(multiplier, k - 1)}} : TRUE

\* the factors one iteration of the while loop pushes
\* (RecurrenceFirst: the variant that pushes after the recurrence step;
\* OneMore: the variant that iterates over 0..=step)
StageFactorsRecurrenceFirst(sign, st) ==
    LET all == Pushed(Multiplier(sign, st), st + 1)
    IN  [i \in 1 .. st |-> all[i + 1]]
StageFactorsOneMore(sign, st) == Pushed(Multiplier(sign, st), st + 1)
StageFactors(sign, st) == Pushed(Multiplier(sign, st), st)

\* while step < n  (Inclusive: the variant step <= n)
LoopCondInclusive(st, m) == st <= m
LoopCond(st, m) == st < m

\* step <<= 1
ShiftLeft(st) == (st * 2) % (2 ^ W)

\* the whole function, for an n that passes the assertion
RECURSIVE PlanLoop(_, _, _, _)
PlanLoop(sign, m, st, fs) ==
    IF LoopCond(st, m)
    THEN PlanLoop(sign, m, ShiftLeft(st), fs \o StageFactors(sign, st))
    ELSE fs

PlanNew(op, m) ==
    [n |-> m, factors |-> PlanLoop(Sign(op), m, 1, <<>>), operation |-> op]

\* a call: the assertion, then the locals before the loop
Call(op, m) ==
    /\ pc \in {"idle", "returned"}
    /\ operation' = op
    /\ n' = m
    /\ step' = 1
    /\ factors' = <<>>
    /\ pc' = IF IsPowerOfTwo(m) THEN "loop" ELSE "panicked"
    /\ UNCHANGED <<plan, bufVars>>

\* one iteration of the while loop
Stage ==
    /\ pc = "loop"
    /\ LoopCond(step, n)
    /\ factors' = factors \o StageFactors(Sign(operation), step)
    /\ step' = ShiftLeft(step)
    /\ UNCHANGED <<pc, operation, n, plan, bufVars>>

\* Plan { n: n, factors: factors, operation: operation }
Return ==
    /\ pc = "loop"
    /\ ~LoopCond(step, n)
    /\ plan' = [n |-> n, factors |-> factors, operation |-> operation]
    /\ pc' = "returned"
    /\ UNCHANGED <<operation, n, step, factors, bufVars>>

InitPlan ==
    /\ pc = "idle"
    /\ operation = "None"
    /\ n = 0
    /\ step = 0
    /\ factors = <<>>
    /\ plan = NoPlan
    /\ kind = "none"
    /\ input = <<>>
    /\ data = <<>>
    /\ applied = <<>>
    /\ spectrum = <<>>

NextPlan ==
    \/ \E op \in Operation, m \in USize : Call(op, m)
    \/ Stage
    \/ Return

SpecPlan == InitPlan /\ [][NextPlan]_vars

\* a call that has started keeps running: the code is sequential and nothing
\* in the loop blocks
SpecPlanFair == SpecPlan /\ WF_vars(Stage) /\ WF_vars(Return)

----------------------------------------------------------------------------
(* The transforms: complex data, real data, unpack *)

\* x / m rounded to the nearest integer, ties away from zero
DivRound(x, m) ==
    IF x >= 0 THEN (2 * x + m) \div (2 * m)
              ELSE -((2 * (-x) + m) \div (2 * m))

\* the index whose `bits` low bits are those of i reversed
RECURSIVE BitReverse(_, _)
BitReverse(i, bits) ==
    IF bits = 0 THEN 0
    ELSE (i % 2) * 2 ^ (bits - 1) + BitReverse(i \div 2, bits - 1)

\* log2 of a power of two
RECURSIVE Log2(_)
Log2(m) == IF m <= 1 THEN 0 ELSE 1 + Log2(m \div 2)

\* step 1: the buffer in bit-reversal order
Rearrange(d) ==
    [j \in 1 .. Len(d) |-> d[BitReverse(j - 1, Log2(Len(d))) + 1]]

\* step 2, one stage: the pairs (j, j + st) of every sub-block of size 2 * st
\* are replaced by (a + w * b, a - w * b), w the factor of the position in the
\* sub-block; st - 1 factors were consumed by the stages before
Butterflies(d, fs, st) ==
    [j \in 1 .. Len(d) |->
        LET pos == (j - 1) % (2 * st)
        IN  IF pos < st
            THEN CAdd(d[j], CMul(fs[st + pos], d[j + st]))
            ELSE CSub(d[j - st], CMul(fs[pos], d[j]))]

\* step 2: the stages, sub-block size doubling from 1 to n
RECURSIVE Calculate(_, _, _)
Calculate(d, fs, st) ==
    IF st < Len(d) THEN Calculate(Butterflies(d, fs, st), fs, 2 * st) ELSE d

\* step 3: every element divided by m
Scale(d, m) ==
    [j \in 1 .. Len(d) |-> c(DivRound(d[j].re, m), DivRound(d[j].im, m))]

\* the transform of a complex buffer
ComplexTransform(d, p) ==
    LET out == Calculate(Rearrange(d), p.factors, 1)
    IN  IF p.operation = "Inverse" THEN Scale(out, Len(d)) ELSE out

\* x / 2
Half(a) == c(Mul(a.re, One \div 2), Mul(a.im, One \div 2))

\* the forward transform of a real buffer of even length: the reals paired
\* into n/2 complex samples, their complex transform with the first n/2 - 1
\* factors, and the recombination with the factors of the last stage
RealForward(r, p) ==
    LET h == Len(r) \div 2
        z == [k \in 1 .. h |-> c(r[2 * k - 1], r[2 * k])]
        Z == Calculate(Rearrange(z), p.factors, 1)
        part1(k) == CAdd(Z[k + 1], Conj(Z[h - k + 1]))
        part2(k) == CSub(Z[k + 1], Conj(Z[h - k + 1]))
        product(k) == CMul(c(0, -One), CMul(p.factors[h + k], part2(k)))
        bin(k) ==
            IF 2 * k < h THEN Half(CAdd(part1(k), product(k)))
            ELSE IF 2 * k = h THEN Conj(Z[k + 1])
            ELSE Conj(Half(CSub(part1(h - k), product(h - k))))
    IN  [j \in 1 .. Len(r) |->
            IF j = 1 THEN Z[1].re + Z[1].im
            ELSE IF j = 2 THEN Z[1].re - Z[1].im
            ELSE IF j % 2 = 1 THEN bin((j - 1) \div 2).re
            ELSE bin((j - 2) \div 2).im]

\* the full spectrum of a packed buffer
Unpack(r) ==
    LET m == Len(r)
        h == m \div 2
    IN  [j \in 1 .. m |->
            LET k == j - 1
            IN  IF k = 0 THEN c(r[1], 0)
                ELSE IF k < h THEN c(r[2 * k + 1], r[2 * k + 2])
                ELSE IF k = h THEN c(r[2], 0)
                ELSE Conj(c(r[2 * (m - k) + 1], r[2 * (m - k) + 2]))]

\* the sample values of the buffers
ComplexSamples == {c(One, 0), c(-(One \div 2), 3 * (One \div 4))}

RealSamples == {One, -(3 * (One \div 4))}

\* the buffers of length m with at most two samples that are not zero
Sparse(m, samples, zero) ==
    {[j \in 1 .. m |-> IF j = a THEN u ELSE IF j = b THEN v ELSE zero] :
        a \in 1 .. m, b \in 1 .. m, u \in samples \cup {zero}, v \in samples \cup {zero}}

Lengths == {2 ^ k : k \in 0 .. MaxLogN}

\* how many transforms a buffer goes through
MaxApplied == 2

InitTransform ==
    /\ pc = "idle"
    /\ operation = "None"
    /\ n = 0
    /\ step = 0
    /\ factors = <<>>
    /\ plan = NoPlan
    /\ kind \in {"complex", "real"}
    /\ \E m \in Lengths :
          /\ kind = "real" => m >= 2
          /\ input \in (IF kind = "complex" THEN Sparse(m, ComplexSamples, c(0, 0))
                                             ELSE Sparse(m, RealSamples, 0))
    /\ data = input
    /\ applied = <<>>
    /\ spectrum = <<>>

\* let plan = Plan::new(op, data.len()), for the next transform
NewPlan(op) ==
    /\ Len(applied) < MaxApplied
    /\ IsPowerOfTwo(Len(data))
    /\ plan' = PlanNew(op, Len(data))
    /\ UNCHANGED <<planVars, bufVars>>

\* dft::transform(&mut data, &plan), data complex
TransformComplex ==
    /\ kind = "complex"
    /\ plan # NoPlan
    /\ plan.n = Len(data)
    /\ Len(applied) < MaxApplied
    /\ data' = ComplexTransform(data, plan)
    /\ applied' = Append(applied, plan.operation)
    /\ UNCHANGED <<planVars, plan, kind, input, spectrum>>

\* dft::transform(&mut data, &plan), data real, the plan a Forward one (the
\* Backward and Inverse transforms of real data are not modelled)
TransformReal ==
    /\ kind = "real"
    /\ plan.operation = "Forward"
    /\ plan.n = Len(data)
    /\ applied = <<>>
    /\ data' = RealForward(data, plan)
    /\ applied' = <<"Forward">>
    /\ UNCHANGED <<planVars, plan, kind, input, spectrum>>

\* let spectrum = dft::unpack(&data), data in the packed format
UnpackCall ==
    /\ kind = "real"
    /\ applied = <<"Forward">>
    /\ spectrum' = Unpack(data)
    /\ UNCHANGED <<planVars, plan, kind, input, data, applied>>

NextTransform ==
    \/ \E op \in Operation : NewPlan(op)
    \/ TransformComplex
    \/ TransformReal
    \/ UnpackCall

SpecTransform == InitTransform /\ [][NextTransform]_vars

----------------------------------------------------------------------------
(* Properties of Plan::new *)

PowerOfTwo(m) == \E k \in 0 .. W : m = 2 ^ k

\* the loop has ended and the locals hold what the call is about to return
Finished == pc = "loop" /\ ~(step < n)

\* C1: for a power of two n >= 1 and any operation, Plan::new returns (it does
\* not panic) a plan with exactly n - 1 factors whose n and operation are the
\* arguments
C1_FactorCount ==
    /\ pc = "panicked" => ~PowerOfTwo(n)
    /\ pc = "returned" =>
          /\ Len(plan.factors) = n - 1
          /\ plan.n = n
          /\ plan.operation = operation

C1_Witness ==
    /\ pc = "returned"
    /\ n = 2 ^ (W - 1)
    /\ Len(plan.factors) = n - 1
    /\ plan.operation = "Backward"

C1_WitnessOne == pc = "returned" /\ n = 1 /\ plan.factors = <<>>

\* C2: in a returned plan the first factor of every stage, the one at index
\* step - 1 (counted from 0) for step = 1, 2, 4, ..., n/2, is exactly 1 + 0i
C2_StageStartsAtOne ==
    pc = "returned" =>
        \A st \in 1 .. (plan.n - 1) :
            PowerOfTwo(st) => plan.factors[st] = c(One, 0)

C2_Witness ==
    /\ pc = "returned"
    /\ plan.n = 2 ^ (W - 1)
    /\ plan.factors[plan.n \div 2] = c(One, 0)
    /\ plan.factors[plan.n \div 2 + 1] # c(One, 0)

\* C3: a call whose n is not a power of two (3, and 0 too) panics at the
\* assertion: nothing has been pushed, the loop is never entered, no plan is
\* returned (the caller never holds a plan whose n is not a power of two)
C3_AssertionFails ==
    /\ (pc # "idle" /\ ~PowerOfTwo(n)) => (pc = "panicked" /\ factors = <<>> /\ step = 1)
    /\ plan # NoPlan => PowerOfTwo(plan.n)

C3_Witness == pc = "panicked" /\ n = 3 /\ factors = <<>>

C3_WitnessZero == pc = "panicked" /\ n = 0 /\ factors = <<>>

\* C8: the imaginary part of the multiplier is negative exactly for Forward;
\* a Backward and an Inverse plan of the same n hold the same factors, and
\* each Forward factor is the conjugate of the Backward factor at its index.
\* Stated of the factors a finished call is about to return and of the plan
\* an earlier call returned.
C8_SignAndConjugates ==
    Finished =>
        /\ n >= 4 => factors[3].im = (IF operation = "Forward" THEN -One ELSE One)
        /\ (plan.n = n /\ plan.operation \in {"Backward", "Inverse"}) =>
              /\ operation \in {"Backward", "Inverse"} => factors = plan.factors
              /\ operation = "Forward" =>
                    factors = [i \in 1 .. Len(plan.factors) |-> Conj(plan.factors[i])]

C8_Witness ==
    /\ Finished
    /\ n = 2 ^ (W - 1)
    /\ operation = "Forward"
    /\ plan.n = n
    /\ plan.operation = "Backward"
    /\ \E i \in 1 .. Len(factors) : factors[i].im # 0 /\ factors[i].re # 0

C8_WitnessInverse ==
    /\ Finished
    /\ n = 2 ^ (W - 1)
    /\ operation = "Inverse"
    /\ plan.n = n
    /\ plan.operation = "Backward"

\* C9: for n >= 2 the first n/2 - 1 factors of the plan for n are the factors
\* of the plan for n/2 and the same operation, in the same order, and the
\* last stage (step = n/2) is the remaining n/2 factors.  Stated of the
\* factors a finished call is about to return and of the plan an earlier call
\* returned.
C9_Prefix ==
    (Finished /\ plan.operation = operation /\ n = 2 * plan.n) =>
        /\ SubSeq(factors, 1, plan.n - 1) = plan.factors
        /\ Len(factors) - (plan.n - 1) = plan.n

C9_Witness ==
    /\ Finished
    /\ plan.operation = operation
    /\ n = 2 ^ (W - 1)
    /\ plan.n = n \div 2
    /\ factors[n - 1] # c(One, 0)

\* C10: the loop visits step = 1, 2, 4, ..., n/2 in increasing order, each
\* once (so step - 1 factors have been pushed when step is reached), doubling
\* never wraps, and the loop exits with step = n; every iteration brings step
\* closer to n, and a call that entered the loop returns
C10_LoopTerminates ==
    /\ [](pc = "loop" =>
            /\ PowerOfTwo(step)
            /\ step <= n
            /\ Len(factors) = step - 1)
    /\ [](pc = "returned" => step = n)
    /\ [][(pc = "loop" /\ pc' = "loop") => (step' = 2 * step /\ n - step' < n - step)]_vars
    /\ (pc = "loop") ~> (pc = "returned")

C10_Witness == pc = "returned" /\ n = 2 ^ (W - 1) /\ step = n /\ Len(plan.factors) = n - 1

----------------------------------------------------------------------------
(* Properties of the transforms *)

Abs(x) == IF x < 0 THEN -x ELSE x

\* every component of a is within tol units in the last place of that of b
Within(a, b, tol) ==
    /\ Len(a) = Len(b)
    /\ \A j \in 1 .. Len(a) :
          /\ Abs(a[j].re - b[j].re) <= tol
          /\ Abs(a[j].im - b[j].im) <= tol

\* the rounding a transform of length m may accumulate, in units in the last
\* place
Tol(m) == 2 * m

Times(m, x) == [j \in 1 .. Len(x) |-> c(m * x[j].re, m * x[j].im)]

\* the reference DFT keeps 14 fractional bits for its roots of unity
RefOne == 2 ^ 14

\* sin(2 * pi * q / 32) for q = 0 .. 8, in units of 1 / RefOne
QuarterWave == <<0, 3196, 6270, 9102, 11585, 13623, 15137, 16069, 16384>>

SinTurn(q) ==
    IF q <= 8 THEN QuarterWave[q + 1]
    ELSE IF q <= 16 THEN QuarterWave[16 - q + 1]
    ELSE IF q <= 24 THEN -QuarterWave[q - 16 + 1]
    ELSE -QuarterWave[32 - q + 1]

CosTurn(q) == SinTurn((q + 8) % 32)

\* exp(-2 * pi * i * e / m)
Root(e, m) ==
    LET q == (e % m) * (32 \div m)
    IN  c(CosTurn(q), -SinTurn(q))

\* sum over j < upto of x[j] * w^(j * k), in units of 1 / (One * RefOne)
RECURSIVE RefSum(_, _, _)
RefSum(x, k, upto) ==
    IF upto = 0 THEN c(0, 0)
    ELSE LET j == upto - 1
             w == Root(j * k, Len(x))
             a == x[j + 1]
         IN  CAdd(RefSum(x, k, j),
                  c(a.re * w.re - a.im * w.im, a.re * w.im + a.im * w.re))

\* d is the reference DFT of x up to tol units in the last place
IsDFT(d, x, tol) ==
    \A k \in 0 .. (Len(x) - 1) :
        LET ref == RefSum(x, k, Len(x))
        IN  /\ Abs(d[k + 1].re * RefOne - ref.re) <= tol
            /\ Abs(d[k + 1].im * RefOne - ref.im) <= tol

Impulse == <<c(One, 0), c(0, 0), c(0, 0), c(0, 0)>>

AllOnes == <<c(One, 0), c(One, 0), c(One, 0), c(One, 0)>>

RECURSIVE Sum(_, _)
Sum(r, upto) == IF upto = 0 THEN 0 ELSE Sum(r, upto - 1) + r[upto]

RECURSIVE AlternatingSum(_, _)
AlternatingSum(r, upto) ==
    IF upto = 0 THEN 0
    ELSE AlternatingSum(r, upto - 1) + (IF upto % 2 = 1 THEN r[upto] ELSE -r[upto])

ZeroImaginary(r) == [j \in 1 .. Len(r) |-> c(r[j], 0)]

RoundTrip == kind = "complex" /\ applied = <<"Forward", "Inverse">>

\* C4 as claimed: after a Forward and then an Inverse transform the buffer
\* equals the input
C4_RoundTripExact == RoundTrip => data = input

\* C4: after a Forward and then an Inverse transform every component of
\* the buffer is within Tol(n) units in the last place of the input
C4_RoundTripWithinTolerance == RoundTrip => Within(data, input, Tol(Len(input)))

C4_Witness ==
    /\ RoundTrip
    /\ Len(input) = 8
    /\ data # input
    /\ Within(data, input, Tol(8))

Unnormalized == kind = "complex" /\ applied = <<"Forward", "Backward">>

\* C5 as claimed: after a Forward and then a Backward transform the buffer
\* equals the input times n
C5_UnnormalizedExact == Unnormalized => data = Times(Len(input), input)

\* C5: after a Forward and then a Backward transform every component of the
\* buffer is within n * Tol(n) units in the last place of n times the input
\* (the rounding of the normalized round trip, not divided by n)
C5_UnnormalizedWithinTolerance ==
    Unnormalized =>
        Within(data, Times(Len(input), input), Len(input) * Tol(Len(input)))

C5_Witness ==
    /\ Unnormalized
    /\ Len(input) = 8
    /\ data # Times(8, input)
    /\ \E j \in 1 .. 8 : input[j] # c(0, 0)

ForwardOnly == kind = "complex" /\ applied = <<"Forward">>

\* C6 as claimed: the Forward transform equals the reference DFT sum (to the
\* nearest representable value)
C6_ReferenceExact ==
    ForwardOnly =>
        /\ input = Impulse => data = AllOnes
        /\ IsDFT(data, input, RefOne \div 2)

\* C6: the Forward transform of the impulse [1, 0, 0, 0] is exactly
\* [1, 1, 1, 1], and the Forward transform of any input is within Tol(n)
\* units in the last place of the reference DFT sum
C6_ReferenceWithinTolerance ==
    ForwardOnly =>
        /\ input = Impulse => data = AllOnes
        /\ IsDFT(data, input, Tol(Len(input)) * RefOne)

C6_Witness == ForwardOnly /\ input = Impulse /\ data = AllOnes

C6_WitnessGeneral ==
    /\ ForwardOnly
    /\ Len(input) = 8
    /\ ~IsDFT(data, input, RefOne \div 2)

Unpacked == kind = "real" /\ applied = <<"Forward">> /\ spectrum # <<>>

FullForward == ComplexTransform(ZeroImaginary(input), PlanNew("Forward", Len(input)))

C7_WitnessTwo ==
    /\ Unpacked
    /\ input = <<One, -(3 * (One \div 4))>>
    /\ data = <<One - 3 * (One \div 4), One + 3 * (One \div 4)>>

====
